---- MODULE Spec2Model ----
(***************************************************************************)
(* Model of the algorithmic logic of the fleet-sdk-tutorial repository:    *)
(* box (UTXO) selection, change calculation, transaction balance           *)
(* validation, swap output and slippage, the two mock chains, the funds    *)
(* check of the transfer flows, the pool update of the swap, the           *)
(* multi-signature withdrawal, the progress tracker and the explorer       *)
(* client's confirmation wait.  Each component has its own variables,      *)
(* initial predicate and next-state relation; the other components'        *)
(* variables stay idle.                                                    *)
(***************************************************************************)
EXTENDS Integers, Sequences, FiniteSets, TLC

VARIABLES
    pool,      \* the caller's array of boxes handed to the selection helpers
    pool0,     \* history: the pool as it was constructed
    ffCall,    \* last call of selectBoxesFirstFit: target, outcome, selection
    lfCall,    \* last call of selectBoxesLargestFirst
    chgCall,   \* last call of calculateChange: arguments and result
    balCall,   \* last call of validateTransactionBalance: arguments and result
    swapCall,  \* last call of calculateSwapOutput: arguments and result
    slipCall,  \* last call of applySlippage: arguments and result
    simBoxes,  \* SimpleChainSimulator.boxes, in insertion order
    simHeight, \* SimpleChainSimulator.height
    simCall,   \* last call on the simulator: arguments, result, state before
    simAdded,  \* history: the values handed to addBox, in call order
    simSpent,  \* history: per box id, how often spendBox returned true
    chain,     \* TutorialMockChain: _height and _timestamp
    chain0,    \* the chain as the constructor left it
    chainCall, \* last call on the chain: arguments and the chain before it
    fundsCall, \* last run of a transfer's funds check: amounts and outcome
    poolCall,  \* last pool update of buildSwapTransaction: reserves before and after
    msig,      \* the multi-sig wallet run: configuration, position in main, what was built
    trk,       \* ProgressTracker instances: each one's progress
    progFile,  \* the progress file .fleet-progress.json
    trkClock,  \* the clock read by new Date(): calls so far
    trkCall,   \* last call on a tracker: arguments, progress and file before it
    trkAwards, \* history: source and amount of every addXP, in call order
    waitCall,  \* the waitForConfirmation call: its position, arguments and polls
    dateNow    \* Date.now() in milliseconds

selVars == <<pool, pool0, ffCall, lfCall>>
chgVars == <<chgCall>>
balVars == <<balCall>>
swapVars == <<swapCall>>
slipVars == <<slipCall>>
simVars == <<simBoxes, simHeight, simCall, simAdded, simSpent>>
chainVars == <<chain, chain0, chainCall>>
fundsVars == <<fundsCall>>
poolVars == <<poolCall>>
msigVars == <<msig>>
trkVars == <<trk, progFile, trkClock, trkCall, trkAwards>>
waitVars == <<waitCall, dateNow>>
vars == <<selVars, chgVars, balVars, swapVars, slipVars, simVars, chainVars, fundsVars, poolVars, msigVars, trkVars, waitVars>>

\* variables left alone by the actions of each component
nonSelVars == <<chgVars, balVars, swapVars, slipVars, simVars, chainVars, fundsVars, poolVars, msigVars, trkVars, waitVars>>
nonChgVars == <<selVars, balVars, swapVars, slipVars, simVars, chainVars, fundsVars, poolVars, msigVars, trkVars, waitVars>>
nonBalVars == <<selVars, chgVars, swapVars, slipVars, simVars, chainVars, fundsVars, poolVars, msigVars, trkVars, waitVars>>
nonSwapVars == <<selVars, chgVars, balVars, slipVars, simVars, chainVars, fundsVars, poolVars, msigVars, trkVars, waitVars>>
nonSlipVars == <<selVars, chgVars, balVars, swapVars, simVars, chainVars, fundsVars, poolVars, msigVars, trkVars, waitVars>>
nonSimVars == <<selVars, chgVars, balVars, swapVars, slipVars, chainVars, fundsVars, poolVars, msigVars, trkVars, waitVars>>
nonChainVars == <<selVars, chgVars, balVars, swapVars, slipVars, simVars, fundsVars, poolVars, msigVars, trkVars, waitVars>>
nonFundsVars == <<selVars, chgVars, balVars, swapVars, slipVars, simVars, chainVars, poolVars, msigVars, trkVars, waitVars>>
nonPoolVars == <<selVars, chgVars, balVars, swapVars, slipVars, simVars, chainVars, fundsVars, msigVars, trkVars, waitVars>>
nonMsigVars == <<selVars, chgVars, balVars, swapVars, slipVars, simVars, chainVars, fundsVars, poolVars, trkVars, waitVars>>
nonTrkVars == <<selVars, chgVars, balVars, swapVars, slipVars, simVars, chainVars, fundsVars, poolVars, msigVars, waitVars>>
nonWaitVars == <<selVars, chgVars, balVars, swapVars, slipVars, simVars, chainVars, fundsVars, poolVars, msigVars, trkVars>>

(***************************************************************************)
(* Bounds of the model                                                     *)
(***************************************************************************)
MaxPool == 3        \* boxes in a pool
MaxValue == 3       \* largest box value
MaxTarget == 7      \* largest selection target

NoCall == [outcome |-> "none"]

(***************************************************************************)
(* Selector: selectBoxesFirstFit / selectBoxesLargestFirst                 *)
(***************************************************************************)
BoxValues == 0..MaxValue
Targets == 0..MaxTarget

\* MockBox { id, value }: ids are unique, here the position in the pool
PoolsOfLen(n) ==
    {[i \in 1..n |-> [id |-> i, value |-> f[i]]] : f \in [1..n -> BoxValues]}

Pools == UNION {PoolsOfLen(n) : n \in 0..MaxPool}

RECURSIVE SumValues(_)
SumValues(boxes) ==
    IF boxes = <<>> THEN 0
    ELSE boxes[1].value + SumValues(Tail(boxes))

\* A plausible slip: the box that reaches the target is not pushed.
RECURSIVE FirstFitLoopBreakEarly(_, _, _, _, _)
FirstFitLoopBreakEarly(boxes, tgt, i, selected, total) ==
    IF i > Len(boxes) THEN selected
    ELSE IF total + boxes[i].value >= tgt THEN selected
    ELSE FirstFitLoopBreakEarly(boxes, tgt, i + 1, Append(selected, boxes[i]),
                                total + boxes[i].value)

\* A plausible slip: strict comparison in the break test.
RECURSIVE FirstFitLoopStrict(_, _, _, _, _)
FirstFitLoopStrict(boxes, tgt, i, selected, total) ==
    IF i > Len(boxes) THEN selected
    ELSE IF total > tgt THEN selected
    ELSE FirstFitLoopStrict(boxes, tgt, i + 1, Append(selected, boxes[i]),
                            total + boxes[i].value)

\* for (const box of boxes) { if (total >= target) break;
\*                            selected.push(box); total += box.value; }
RECURSIVE FirstFitLoop(_, _, _, _, _)
FirstFitLoop(boxes, tgt, i, selected, total) ==
    IF i > Len(boxes) THEN selected
    ELSE IF total >= tgt THEN selected
    ELSE FirstFitLoop(boxes, tgt, i + 1, Append(selected, boxes[i]),
                      total + boxes[i].value)

\* selected = [], total = 0n, loop, return selected (never throws)
selectBoxesFirstFit(boxes, tgt) == FirstFitLoop(boxes, tgt, 1, <<>>, 0)

\* A plausible slip: comparator sorts ascending.
cmpAscending(a, b) ==
    IF a.value > b.value THEN 1 ELSE IF a.value < b.value THEN -1 ELSE 0

\* (a, b) => a.value > b.value ? -1 : a.value < b.value ? 1 : 0
cmpTest(a, b) ==
    IF a.value > b.value THEN -1 ELSE IF a.value < b.value THEN 1 ELSE 0

\* (a, b) => Number(b.value - a.value): Number() keeps the sign of a bigint
cmpDoc(a, b) == b.value - a.value

SortVariants == {"test", "doc"}

compare(variant, a, b) ==
    IF variant = "test" THEN cmpTest(a, b) ELSE cmpDoc(a, b)

\* A plausible slip: x is placed before the elements it compares equal to
\* (an unstable sort).
RECURSIVE InsertBeforeEqual(_, _, _)
InsertBeforeEqual(variant, sorted, x) ==
    IF sorted = <<>> THEN <<x>>
    ELSE IF compare(variant, sorted[1], x) >= 0 THEN <<x>> \o sorted
    ELSE <<sorted[1]>> \o InsertBeforeEqual(variant, Tail(sorted), x)

\* Array.prototype.sort is stable: x goes before the first element that the
\* comparator orders after it, behind every element it compares equal to.
RECURSIVE InsertSorted(_, _, _)
InsertSorted(variant, sorted, x) ==
    IF sorted = <<>> THEN <<x>>
    ELSE IF compare(variant, sorted[1], x) > 0 THEN <<x>> \o sorted
    ELSE <<sorted[1]>> \o InsertSorted(variant, Tail(sorted), x)

RECURSIVE ArraySortFrom(_, _, _, _)
ArraySortFrom(variant, arr, i, sorted) ==
    IF i > Len(arr) THEN sorted
    ELSE ArraySortFrom(variant, arr, i + 1, InsertSorted(variant, sorted, arr[i]))

\* arr.sort(comparator)
ArraySort(variant, arr) == ArraySortFrom(variant, arr, 1, <<>>)

\* const sorted = [...boxes].sort(cmp); return selectBoxesFirstFit(sorted, target)
selectBoxesLargestFirst(variant, boxes, tgt) ==
    selectBoxesFirstFit(ArraySort(variant, boxes), tgt)

\* A plausible slip: boxes.sort(cmp) without the copy sorts the caller's array.
BoxesAfterSortInPlace(variant, boxes) == ArraySort(variant, boxes)

\* [...boxes] copies: the caller's array is as it was after the call
BoxesAfterLargestFirst(variant, boxes) == boxes

SelInit ==
    /\ pool \in Pools
    /\ pool0 = pool
    /\ ffCall = NoCall
    /\ lfCall = NoCall

SelIdle ==
    /\ pool = <<>>
    /\ pool0 = <<>>
    /\ ffCall = NoCall
    /\ lfCall = NoCall

SelectFirstFit ==
    \E t \in Targets :
        /\ ffCall' = [outcome |-> "returned", target |-> t,
                      selected |-> selectBoxesFirstFit(pool, t)]
        /\ UNCHANGED <<pool, pool0, lfCall>>
        /\ UNCHANGED nonSelVars

SelectLargestFirst ==
    \E t \in Targets, variant \in SortVariants :
        /\ lfCall' = [outcome |-> "returned", target |-> t, variant |-> variant,
                      selected |-> selectBoxesLargestFirst(variant, pool, t)]
        /\ pool' = BoxesAfterLargestFirst(variant, pool)
        /\ UNCHANGED <<pool0, ffCall>>
        /\ UNCHANGED nonSelVars

SelNext == SelectFirstFit \/ SelectLargestFirst


ChgIdle == chgCall = NoCall
BalIdle == balCall = NoCall
SwapIdle == swapCall = NoCall
SlipIdle == slipCall = NoCall
SimIdle ==
    /\ simBoxes = <<>>
    /\ simHeight = 0
    /\ simCall = NoCall
    /\ simAdded = <<>>
    /\ simSpent = <<>>
ChainIdle ==
    /\ chain = [height |-> 0, timestamp |-> 0]
    /\ chain0 = chain
    /\ chainCall = NoCall

FundsIdle == fundsCall = NoCall

PoolIdle == poolCall = NoCall

MsigIdle == msig = NoCall

TrkIdle ==
    /\ trk = <<>>
    /\ progFile = [exists |-> FALSE]
    /\ trkClock = 0
    /\ trkCall = NoCall
    /\ trkAwards = <<>>

WaitIdle == waitCall = NoCall /\ dateNow = 0

InitSelect == SelInit /\ ChgIdle /\ BalIdle /\ SwapIdle /\ SlipIdle /\ SimIdle /\ ChainIdle /\ FundsIdle /\ PoolIdle /\ MsigIdle /\ TrkIdle /\ WaitIdle

SpecSelect == InitSelect /\ [][SelNext]_vars

(***************************************************************************)
(* Selector: properties                                                    *)
(***************************************************************************)
Called(c) == c.outcome \notin {"none", "pending"}

\* the call returned a selection whose values sum to at least its target
Reached(c) == c.outcome = "returned" /\ SumValues(c.selected) >= c.target

ButLast(s) == SubSeq(s, 1, Len(s) - 1)

\* position of box i in the pool ordered by value descending, ties in pool order
Rank(boxes, i) ==
    1 + Cardinality({j \in 1..Len(boxes) :
                        \/ boxes[j].value > boxes[i].value
                        \/ boxes[j].value = boxes[i].value /\ j < i})

StableSortedDesc(boxes) ==
    [r \in 1..Len(boxes) |-> boxes[CHOOSE i \in 1..Len(boxes) : Rank(boxes, i) = r]]

MaxBoxValue(boxes) ==
    CHOOSE v \in {boxes[i].value : i \in 1..Len(boxes)} :
        \A i \in 1..Len(boxes) : boxes[i].value <= v

\* C1: whenever the values of the pool sum to at least the target, first-fit
\* and largest-first both return a selection whose values sum to at least
\* the target.
C1_SelectionSufficient ==
    /\ (Called(ffCall) /\ SumValues(pool) >= ffCall.target) => Reached(ffCall)
    /\ (Called(lfCall) /\ SumValues(pool) >= lfCall.target) => Reached(lfCall)

C1_Witness ==
    /\ Called(ffCall) /\ Called(lfCall)
    /\ ffCall.target > 0 /\ lfCall.target > 0
    /\ SumValues(pool) >= ffCall.target /\ SumValues(pool) >= lfCall.target
    /\ Len(ffCall.selected) >= 2 /\ Len(lfCall.selected) >= 2

\* C2: when first-fit exhausts the pool without reaching the target (an empty
\* pool with a positive target included) the call fails with
\* InsufficientFunds and returns no partial selection.
C2_ExhaustedPoolFails ==
    (Called(ffCall) /\ SumValues(pool) < ffCall.target)
        => (ffCall.outcome = "InsufficientFunds" /\ ffCall.selected = <<>>)

\* C3: in a first-fit selection that reaches its target, the boxes before the
\* last selected one sum to less than the target.
C3_FirstFitMinimal ==
    (Called(ffCall) /\ Reached(ffCall) /\ ffCall.selected # <<>>)
        => SumValues(ButLast(ffCall.selected)) < ffCall.target

C3_Witness ==
    /\ Called(ffCall) /\ Reached(ffCall)
    /\ Len(ffCall.selected) >= 2
    /\ SumValues(ffCall.selected) > ffCall.target
    /\ Len(ffCall.selected) < Len(pool)

\* C4: on the same pool and target, when both policies reach the target,
\* largest-first selects no more boxes than first-fit.
C4_LargestFirstNoMoreBoxes ==
    (/\ Called(ffCall) /\ Called(lfCall)
     /\ ffCall.target = lfCall.target
     /\ Reached(ffCall) /\ Reached(lfCall))
        => Len(lfCall.selected) <= Len(ffCall.selected)

C4_Witness ==
    /\ Called(ffCall) /\ Called(lfCall)
    /\ ffCall.target = lfCall.target
    /\ Reached(ffCall) /\ Reached(lfCall)
    /\ Len(lfCall.selected) < Len(ffCall.selected)

\* C5: largest-first returns first-fit applied to the pool ordered by value
\* descending with ties in pool order: the selection is non-increasing in
\* value, equal values keep their pool order, and a non-empty selection
\* starts with a box of the largest value.
C5_LargestFirstIsFirstFitOnStableSort ==
    Called(lfCall) =>
        LET sel == lfCall.selected
        IN  /\ sel = selectBoxesFirstFit(StableSortedDesc(pool0), lfCall.target)
            /\ \A i, j \in 1..Len(sel) :
                  i < j => /\ sel[i].value >= sel[j].value
                           /\ sel[i].value = sel[j].value => sel[i].id < sel[j].id
            /\ sel # <<>> => sel[1].value = MaxBoxValue(pool0)

C5_Witness ==
    /\ Called(lfCall)
    /\ Len(lfCall.selected) >= 2
    /\ lfCall.selected[1].value = lfCall.selected[2].value
    /\ lfCall.selected[1].id > 1
    /\ pool0[1].value < lfCall.selected[1].value

\* C6: neither selection changes the pool (same boxes, same order, same
\* values), so every call returns what it returns on the pool as constructed,
\* whatever calls ran before it.
C6_PoolNotMutated ==
    /\ pool = pool0
    /\ Called(ffCall) => ffCall.selected = selectBoxesFirstFit(pool0, ffCall.target)
    /\ Called(lfCall) =>
          lfCall.selected = selectBoxesLargestFirst(lfCall.variant, pool0, lfCall.target)

C6_Witness ==
    /\ Called(ffCall) /\ Called(lfCall)
    /\ ArraySort(lfCall.variant, pool0) # pool0
    /\ ffCall.target = lfCall.target
    /\ ffCall.selected # lfCall.selected
    /\ pool = pool0

(***************************************************************************)
(* Balance calculator: calculateChange                                     *)
(***************************************************************************)
SAFE_MIN_BOX_VALUE == 1000000
RECOMMENDED_MIN_FEE_VALUE == 1100000

MaxUnits == 3       \* amounts reach MaxUnits half minimum-box units

\* amounts at and next to every multiple of half the minimum box value
AmountGrid ==
    {a \in {k * (SAFE_MIN_BOX_VALUE \div 2) + d : k \in 0..MaxUnits, d \in {-1, 0, 1}} :
        a >= 0}

Fees == {0, RECOMMENDED_MIN_FEE_VALUE}

\* A plausible slip: "change <= 0n" in place of "change === 0n".
calculateChangeNonPositive(inputTotal, outputTotal, fee) ==
    LET change == inputTotal - outputTotal - fee
    IN  [change |-> change,
         isValid |-> (change >= SAFE_MIN_BOX_VALUE \/ change <= 0)]

\* A plausible slip: the minimum box value is not compared.
calculateChangeNoMinimum(inputTotal, outputTotal, fee) ==
    LET change == inputTotal - outputTotal - fee
    IN  [change |-> change, isValid |-> change >= 0]

\* const change = inputTotal - outputTotal - fee;
\* return { change, isValid: change >= SAFE_MIN_BOX_VALUE || change === 0n }
calculateChange(inputTotal, outputTotal, fee) ==
    LET change == inputTotal - outputTotal - fee
    IN  [change |-> change,
         isValid |-> (change >= SAFE_MIN_BOX_VALUE \/ change = 0)]

CalculateChange ==
    \E inputTotal \in AmountGrid, outputTotal \in AmountGrid, fee \in Fees :
        /\ chgCall' = [outcome |-> "returned", inputTotal |-> inputTotal,
                       outputTotal |-> outputTotal, fee |-> fee,
                       result |-> calculateChange(inputTotal, outputTotal, fee)]
        /\ UNCHANGED nonChgVars

ChgNext == CalculateChange

InitChange == SelIdle /\ ChgIdle /\ BalIdle /\ SwapIdle /\ SlipIdle /\ SimIdle /\ ChainIdle /\ FundsIdle /\ PoolIdle /\ MsigIdle /\ TrkIdle /\ WaitIdle

SpecChange == InitChange /\ [][ChgNext]_vars


C9_DustRejected ==
    Called(chgCall) =>
        LET v == chgCall.result.change
        IN  /\ chgCall.result.isValid => (v = 0 \/ v >= SAFE_MIN_BOX_VALUE)
            /\ (0 < v /\ v < SAFE_MIN_BOX_VALUE) => ~chgCall.result.isValid

C9_Witness ==
    /\ Called(chgCall)
    /\ chgCall.result.change = SAFE_MIN_BOX_VALUE - 1
    /\ ~chgCall.result.isValid

(***************************************************************************)
(* Balance calculator: TutorialMockChain.validateTransactionBalance        *)
(***************************************************************************)
MaxTxBoxes == 2      \* inputs, and outputs, of a transaction
MaxTxValue == 2      \* largest value of an input or output
MaxTxFee == 1        \* largest fee
MaxTokenAmount == 2  \* largest token amount in a box

\* TOKENS of the mock chain
TokenIds == {"sigUSD", "sigRSV"}

\* tokens?: Array<{ tokenId, amount }>, here none or one entry
TokenLists ==
    {<<>>} \cup {<<[tokenId |-> id, amount |-> a]>> :
                    id \in TokenIds, a \in 1..MaxTokenAmount}

TxBoxes == [value : 1..MaxTxValue, tokens : TokenLists]

TxSides == UNION {[1..n -> TxBoxes] : n \in 0..MaxTxBoxes}

\* inputTotal = inputs.reduce(...value), outputTotal = outputs.reduce(...value);
\* return inputTotal >= outputTotal + fee  (the tokens are never read)
validateTransactionBalance(inputs, outputs, fee) ==
    LET inputTotal == SumValues(inputs)
        outputTotal == SumValues(outputs)
    IN  inputTotal >= outputTotal + fee

\* a transaction shape handed to the validation, not yet validated
BalInit ==
    balCall \in [outcome : {"pending"}, inputs : TxSides, outputs : TxSides,
                 fee : 0..MaxTxFee]

ValidateTransactionBalance ==
    /\ balCall.outcome = "pending"
    /\ balCall' = [outcome |-> "returned", inputs |-> balCall.inputs,
                   outputs |-> balCall.outputs, fee |-> balCall.fee,
                   result |-> validateTransactionBalance(
                                  balCall.inputs, balCall.outputs, balCall.fee)]
    /\ UNCHANGED nonBalVars

BalNext == ValidateTransactionBalance

InitBalance == SelIdle /\ ChgIdle /\ BalInit /\ SwapIdle /\ SlipIdle /\ SimIdle /\ ChainIdle /\ FundsIdle /\ PoolIdle /\ MsigIdle /\ TrkIdle /\ WaitIdle

SpecBalance == InitBalance /\ [][BalNext]_vars

RECURSIVE SumToken(_, _)
SumToken(boxes, id) ==
    IF boxes = <<>> THEN 0
    ELSE LET here == {k \in 1..Len(boxes[1].tokens) : boxes[1].tokens[k].tokenId = id}
         IN  (IF here = {} THEN 0 ELSE boxes[1].tokens[CHOOSE k \in here : TRUE].amount)
             + SumToken(Tail(boxes), id)

\* C8: a transaction is accepted as balanced only when the sum of the input
\* values equals the sum of the output values plus the fee.
C8_AcceptedConservesValue ==
    (Called(balCall) /\ balCall.result)
        => SumValues(balCall.inputs) = SumValues(balCall.outputs) + balCall.fee

\* C10: a transaction is accepted only if every asset of its outputs sums,
\* over the outputs, to at most its sum over the inputs (the validation takes
\* no mint flag, so no asset is exempt).
C10_AcceptedConservesAssets ==
    (Called(balCall) /\ balCall.result)
        => \A id \in TokenIds :
              SumToken(balCall.outputs, id) <= SumToken(balCall.inputs, id)


(***************************************************************************)
(* JavaScript numbers: IEEE 754 binary64 arithmetic on non-negative        *)
(* values.  A number is [m, e] standing for m * 2^e, m a natural number of *)
(* at most MantissaBits bits held as a little-endian sequence of limbs     *)
(* (the model checker's integers are too narrow for a significand).        *)
(***************************************************************************)
MantissaBits == 53
LimbBits == 15
LimbBase == 2 ^ LimbBits

Head0(a) == IF a = <<>> THEN 0 ELSE a[1]
Tail0(a) == IF a = <<>> THEN <<>> ELSE Tail(a)

RECURSIVE BigNorm(_)
BigNorm(a) ==
    IF a = <<>> THEN <<>>
    ELSE IF a[Len(a)] = 0 THEN BigNorm(SubSeq(a, 1, Len(a) - 1))
    ELSE a

RECURSIVE BigFromInt(_)
BigFromInt(n) ==
    IF n = 0 THEN <<>> ELSE <<n % LimbBase>> \o BigFromInt(n \div LimbBase)

RECURSIVE BigToInt(_)
BigToInt(a) ==
    IF a = <<>> THEN 0 ELSE a[1] + LimbBase * BigToInt(Tail(a))

RECURSIVE BigCmpFrom(_, _, _)
BigCmpFrom(a, b, i) ==
    IF i = 0 THEN 0
    ELSE IF a[i] > b[i] THEN 1
    ELSE IF a[i] < b[i] THEN -1
    ELSE BigCmpFrom(a, b, i - 1)

\* -1, 0, 1 as a < b, a = b, a > b (both normalised)
BigCmp(a, b) ==
    IF Len(a) > Len(b) THEN 1
    ELSE IF Len(a) < Len(b) THEN -1
    ELSE BigCmpFrom(a, b, Len(a))

RECURSIVE BigAddC(_, _, _)
BigAddC(a, b, c) ==
    IF a = <<>> /\ b = <<>> THEN (IF c = 0 THEN <<>> ELSE <<c>>)
    ELSE LET t == Head0(a) + Head0(b) + c
         IN  <<t % LimbBase>> \o BigAddC(Tail0(a), Tail0(b), t \div LimbBase)

BigAdd(a, b) == BigAddC(a, b, 0)

RECURSIVE BigSubB(_, _, _)
BigSubB(a, b, borrow) ==
    IF a = <<>> THEN <<>>
    ELSE LET t == a[1] - Head0(b) - borrow
         IN  IF t < 0 THEN <<t + LimbBase>> \o BigSubB(Tail(a), Tail0(b), 1)
             ELSE <<t>> \o BigSubB(Tail(a), Tail0(b), 0)

\* a - b for a >= b
BigSub(a, b) == BigNorm(BigSubB(a, b, 0))

RECURSIVE BigMulSmallC(_, _, _)
BigMulSmallC(a, k, c) ==
    IF a = <<>> THEN (IF c = 0 THEN <<>> ELSE <<c>>)
    ELSE LET t == a[1] * k + c
         IN  <<t % LimbBase>> \o BigMulSmallC(Tail(a), k, t \div LimbBase)

\* a * k for 0 <= k < LimbBase
BigMulSmall(a, k) == BigNorm(BigMulSmallC(a, k, 0))

RECURSIVE BigMul(_, _)
BigMul(a, b) ==
    IF b = <<>> THEN <<>>
    ELSE BigAdd(BigMulSmall(a, b[1]),
                LET rest == BigMul(a, Tail(b))
                IN  IF rest = <<>> THEN <<>> ELSE <<0>> \o rest)

\* long division by 0 < k < LimbBase, from the top limb down: [q, r]
RECURSIVE BigDivSmallFrom(_, _, _, _, _)
BigDivSmallFrom(a, k, i, q, r) ==
    IF i = 0 THEN [q |-> BigNorm(q), r |-> r]
    ELSE LET t == r * LimbBase + a[i]
         IN  BigDivSmallFrom(a, k, i - 1, <<t \div k>> \o q, t % k)

BigDivSmall(a, k) == BigDivSmallFrom(a, k, Len(a), <<>>, 0)

BigShiftLeft(a, s) ==
    IF a = <<>> THEN <<>>
    ELSE [i \in 1..(s \div LimbBits) |-> 0] \o BigMulSmall(a, 2 ^ (s % LimbBits))

BigShiftRight(a, s) ==
    IF s \div LimbBits >= Len(a) THEN <<>>
    ELSE BigDivSmall(SubSeq(a, (s \div LimbBits) + 1, Len(a)), 2 ^ (s % LimbBits)).q

RECURSIVE SmallBitLen(_)
SmallBitLen(n) == IF n = 0 THEN 0 ELSE 1 + SmallBitLen(n \div 2)

BigBitLen(a) ==
    IF a = <<>> THEN 0 ELSE (Len(a) - 1) * LimbBits + SmallBitLen(a[Len(a)])

BigIsOdd(a) == a # <<>> /\ a[1] % 2 = 1

DoubleZero == [m |-> <<>>, e |-> 0]

\* round-to-nearest, ties-to-even, of (p + fraction) * 2^e to MantissaBits
\* bits, where sticky says that a non-zero fraction below p was cut off
RoundToDouble(p, e, sticky) ==
    LET s == BigBitLen(p) - MantissaBits
    IN  IF s <= 0 THEN [m |-> p, e |-> e]
        ELSE LET q == BigShiftRight(p, s)
                 low == BigSub(p, BigShiftLeft(q, s))
                 half == BigShiftLeft(<<1>>, s - 1)
                 c == BigCmp(low, half)
                 up == c > 0 \/ (c = 0 /\ (sticky \/ BigIsOdd(q)))
             IN  [m |-> IF up THEN BigAdd(q, <<1>>) ELSE q, e |-> e + s]

\* Number(n) for a bigint 0 <= n (exact below 2^53)
NumberOfBigInt(n) == RoundToDouble(BigFromInt(n), 0, FALSE)

\* x * y
DoubleMul(x, y) ==
    IF x.m = <<>> \/ y.m = <<>> THEN DoubleZero
    ELSE RoundToDouble(BigMul(x.m, y.m), x.e + y.e, FALSE)

GuardBits == 75

\* x / k for an integer 0 < k < LimbBase
DoubleDivSmall(x, k) ==
    IF x.m = <<>> THEN DoubleZero
    ELSE LET d == BigDivSmall(BigShiftLeft(x.m, GuardBits), k)
         IN  RoundToDouble(d.q, x.e - GuardBits, d.r # 0)

Min2(a, b) == IF a < b THEN a ELSE b

\* x - y for x >= y
DoubleSub(x, y) ==
    IF y.m = <<>> THEN x
    ELSE LET e == Min2(x.e, y.e)
             d == BigSub(BigShiftLeft(x.m, x.e - e), BigShiftLeft(y.m, y.e - e))
         IN  IF d = <<>> THEN DoubleZero ELSE RoundToDouble(d, e, FALSE)

\* Math.floor(x) for x >= 0, as an integer
DoubleFloor(x) ==
    IF x.e >= 0 THEN BigToInt(BigShiftLeft(x.m, x.e))
    ELSE BigToInt(BigShiftRight(x.m, 0 - x.e))

\* Math.ceil(x) for x >= 0, as an integer
DoubleCeil(x) ==
    IF x.e >= 0 THEN BigToInt(BigShiftLeft(x.m, x.e))
    ELSE LET q == BigShiftRight(x.m, 0 - x.e)
         IN  IF BigShiftLeft(q, 0 - x.e) = x.m THEN BigToInt(q) ELSE BigToInt(q) + 1


(***************************************************************************)
(* Swap calculator: calculateSwapOutput                                    *)
(***************************************************************************)
MaxSwapInput == 10   \* small input amounts run from -1 to MaxSwapInput
MaxReserve == 3      \* small reserves run from -1 to MaxReserve

\* input amounts: every small one, and a few of ordinary size
SwapInputs == (-1..MaxSwapInput) \cup {125, 250, 500}

\* reserves: every small one, and one of ordinary size
Reserves == (-1..MaxReserve) \cup {10000}

\* fee rates in basis points; the pool's feePercent 0.3 is 30
FeeRatesBps == {0, 30, 700, 8000}

Abs(n) == IF n < 0 THEN 0 - n ELSE n

DoubleOne == [m |-> <<1>>, e |-> 0]

\* the number literal for bps / 100 percent (0.3 for 30): the nearest double
PercentLiteral(bps) == DoubleDivSmall(NumberOfBigInt(bps), 100)

\* A plausible slip: the fee share is kept instead of the share after the fee.
FeeMultiplierFeeOnly(percent) == DoubleDivSmall(percent, 100)

\* 1 - (feePercent / 100)
FeeMultiplier(percent) == DoubleSub(DoubleOne, DoubleDivSmall(percent, 100))

\* BigInt(Math.floor(Number(amount) * multiplier)); the product of a negative
\* amount is the negated product of its magnitude, and its floor the negated
\* ceiling
FloorOfProduct(amount, multiplier) ==
    LET mag == DoubleMul(NumberOfBigInt(Abs(amount)), multiplier)
    IN  IF amount >= 0 THEN DoubleFloor(mag) ELSE 0 - DoubleCeil(mag)

\* bigint division truncates toward zero
TruncDiv(a, b) ==
    LET q == Abs(a) \div Abs(b)
    IN  IF (a < 0) # (b < 0) THEN 0 - q ELSE q

\* A plausible slip: the input is left out of the denominator.
SwapDenominatorReserveOnly(inputReserve, inputWithFee) == inputReserve

\* const denominator = inputReserve + inputWithFee
SwapDenominator(inputReserve, inputWithFee) == inputReserve + inputWithFee

\* A plausible slip: the operands of the division are exchanged.
SwapQuotientInverted(numerator, denominator) ==
    IF numerator = 0 THEN [outcome |-> "RangeError"]
    ELSE [outcome |-> "returned", value |-> TruncDiv(denominator, numerator)]

\* return numerator / denominator  (a zero divisor throws RangeError)
SwapQuotient(numerator, denominator) ==
    IF denominator = 0 THEN [outcome |-> "RangeError"]
    ELSE [outcome |-> "returned", value |-> TruncDiv(numerator, denominator)]

calculateSwapOutput(inputAmount, inputReserve, outputReserve, feeBps) ==
    LET feeMultiplier == FeeMultiplier(PercentLiteral(feeBps))
        inputWithFee == FloorOfProduct(inputAmount, feeMultiplier)
        numerator == outputReserve * inputWithFee
        denominator == SwapDenominator(inputReserve, inputWithFee)
    IN  SwapQuotient(numerator, denominator)

\* the arguments of a call that has not run yet
SwapInit ==
    swapCall \in [outcome : {"pending"}, inputAmount : SwapInputs,
                  inputReserve : Reserves, outputReserve : Reserves,
                  feeBps : FeeRatesBps]

CalculateSwapOutput ==
    /\ swapCall.outcome = "pending"
    /\ swapCall' =
          LET r == calculateSwapOutput(swapCall.inputAmount, swapCall.inputReserve,
                                       swapCall.outputReserve, swapCall.feeBps)
          IN  [outcome |-> r.outcome, inputAmount |-> swapCall.inputAmount,
               inputReserve |-> swapCall.inputReserve,
               outputReserve |-> swapCall.outputReserve,
               feeBps |-> swapCall.feeBps,
               value |-> IF r.outcome = "returned" THEN r.value ELSE 0]
    /\ UNCHANGED nonSwapVars

SwapNext == CalculateSwapOutput

InitSwap == SelIdle /\ ChgIdle /\ BalIdle /\ SwapInit /\ SlipIdle /\ SimIdle /\ ChainIdle /\ FundsIdle /\ PoolIdle /\ MsigIdle /\ TrkIdle /\ WaitIdle

SpecSwap == InitSwap /\ [][SwapNext]_vars


\* the call ran on a pool with positive reserves and a positive input
SwapCalledInDomain ==
    /\ Called(swapCall)
    /\ swapCall.inputAmount > 0
    /\ swapCall.inputReserve > 0
    /\ swapCall.outputReserve > 0

\* the stated fee step in integers: inputAmount * (10000 - feeRateBps) / 10000
StatedInputAfterFee(inputAmount, feeRateBps) ==
    TruncDiv(inputAmount * (10000 - feeRateBps), 10000)

\* the stated output in integers
StatedSwapOutput(inputAmount, reserveIn, reserveOut, feeRateBps) ==
    LET inputAfterFee == StatedInputAfterFee(inputAmount, feeRateBps)
    IN  TruncDiv(reserveOut * inputAfterFee, reserveIn + inputAfterFee)

\* C11: for every positive input, positive reserves and fee rate the output
\* returned is (reserveOut * inputAfterFee) / (reserveIn + inputAfterFee) with
\* inputAfterFee = inputAmount * (10000 - feeRateBps) / 10000, both divisions
\* truncating integer divisions.
C11_OutputIsIntegerFormula ==
    SwapCalledInDomain =>
        /\ swapCall.outcome = "returned"
        /\ swapCall.value = StatedSwapOutput(swapCall.inputAmount, swapCall.inputReserve,
                                             swapCall.outputReserve, swapCall.feeBps)

\* C12: on positive reserves and a positive input the output returned is
\* strictly below reserveOut, so the output reserve stays positive.
C12_OutputBelowReserve ==
    SwapCalledInDomain =>
        /\ swapCall.outcome = "returned"
        /\ swapCall.value < swapCall.outputReserve
        /\ swapCall.outputReserve - swapCall.value > 0

C12_Witness ==
    /\ SwapCalledInDomain
    /\ swapCall.value > 0
    /\ swapCall.value = swapCall.outputReserve - 1

\* C13: for fixed reserves and fee, an input at least as large never gets a
\* smaller output.
C13_MonotoneInInput ==
    SwapCalledInDomain =>
        \A b \in SwapInputs :
            swapCall.inputAmount <= b =>
                LET rb == calculateSwapOutput(b, swapCall.inputReserve,
                                              swapCall.outputReserve, swapCall.feeBps)
                IN  /\ swapCall.outcome = "returned"
                    /\ rb.outcome = "returned"
                    /\ swapCall.value <= rb.value

C13_Witness ==
    /\ SwapCalledInDomain
    /\ \E b \in SwapInputs :
          /\ swapCall.inputAmount < b
          /\ swapCall.value <
                calculateSwapOutput(b, swapCall.inputReserve,
                                    swapCall.outputReserve, swapCall.feeBps).value

\* C14: for fixed reserves and input, a higher fee rate never gets a larger
\* output.
C14_MonotoneDecreasingInFee ==
    SwapCalledInDomain =>
        \A f \in FeeRatesBps :
            swapCall.feeBps <= f =>
                LET rf == calculateSwapOutput(swapCall.inputAmount, swapCall.inputReserve,
                                              swapCall.outputReserve, f)
                IN  /\ swapCall.outcome = "returned"
                    /\ rf.outcome = "returned"
                    /\ rf.value <= swapCall.value

C14_Witness ==
    /\ SwapCalledInDomain
    /\ \E f \in FeeRatesBps :
          /\ swapCall.feeBps < f
          /\ calculateSwapOutput(swapCall.inputAmount, swapCall.inputReserve,
                                 swapCall.outputReserve, f).value < swapCall.value

\* C15: a call with inputAmount <= 0 fails with InvalidInput and a call with
\* reserveIn <= 0 or reserveOut <= 0 fails with InvalidPoolState; neither
\* returns an output.
C15_InvalidArgumentsRejected ==
    Called(swapCall) =>
        /\ swapCall.inputAmount <= 0 =>
              swapCall.outcome \in {"InvalidInput", "InvalidPoolState"}
        /\ (swapCall.inputReserve <= 0 \/ swapCall.outputReserve <= 0) =>
              swapCall.outcome \in {"InvalidInput", "InvalidPoolState"}
        /\ (swapCall.inputAmount <= 0 /\ swapCall.inputReserve > 0
                /\ swapCall.outputReserve > 0) =>
              swapCall.outcome = "InvalidInput"
        /\ (swapCall.inputAmount > 0
                /\ (swapCall.inputReserve <= 0 \/ swapCall.outputReserve <= 0)) =>
              swapCall.outcome = "InvalidPoolState"


(***************************************************************************)
(* Slippage protection: applySlippage                                      *)
(***************************************************************************)
MaxSlipAmount == 20   \* small amounts run from 0 to MaxSlipAmount

\* expected output amounts: every small one, and a few of ordinary size
SlipAmounts == (0..MaxSlipAmount) \cup {125, 250, 500}

\* tolerances in basis points; the example's slippageTolerance 0.5 is 50
SlippageRatesBps == {0, 50, 700, 8000, 10000}

\* 1 - (slippagePercent / 100)
SlippageMultiplier(percent) == DoubleSub(DoubleOne, DoubleDivSmall(percent, 100))

applySlippage(amount, slippageBps) ==
    LET slippageMultiplier == SlippageMultiplier(PercentLiteral(slippageBps))
    IN  FloorOfProduct(amount, slippageMultiplier)

\* the arguments of a call that has not run yet
SlipInit ==
    slipCall \in [outcome : {"pending"}, amount : SlipAmounts,
                  slippageBps : SlippageRatesBps]

ApplySlippage ==
    /\ slipCall.outcome = "pending"
    /\ slipCall' = [outcome |-> "returned", amount |-> slipCall.amount,
                    slippageBps |-> slipCall.slippageBps,
                    value |-> applySlippage(slipCall.amount, slipCall.slippageBps)]
    /\ UNCHANGED nonSlipVars

SlipNext == ApplySlippage

InitSlippage == SelIdle /\ ChgIdle /\ BalIdle /\ SwapIdle /\ SlipInit /\ SimIdle /\ ChainIdle /\ FundsIdle /\ PoolIdle /\ MsigIdle /\ TrkIdle /\ WaitIdle

SpecSlippage == InitSlippage /\ [][SlipNext]_vars

\* C16: applySlippage returns amount * (10000 - slippageBps) / 10000 in
\* integer division, which is at most the amount, for every non-negative
\* amount and every tolerance from 0 to 100%.
C16_SlippageIsIntegerFormula ==
    Called(slipCall) =>
        /\ slipCall.value =
              TruncDiv(slipCall.amount * (10000 - slipCall.slippageBps), 10000)
        /\ slipCall.value <= slipCall.amount


(***************************************************************************)
(* SimpleChainSimulator                                                    *)
(***************************************************************************)
MaxSimBoxes == 3    \* boxes added to the simulator
MaxSimValue == 2    \* largest value of an added box
MaxSimBlocks == 1   \* incrementHeight calls

SimInitialHeight == 1000000

SimValues == 0..MaxSimValue

\* box ids are `box-${boxes.size}-${Date.now()}`: the size at the time of the
\* call tells them apart, and the model keeps that part
SimBoxIds == 0..MaxSimBoxes

\* this.boxes.get(boxId): the position of the box, 0 when there is none
BoxIndex(boxes, boxId) ==
    IF \E i \in DOMAIN boxes : boxes[i].boxId = boxId
    THEN CHOOSE i \in DOMAIN boxes : boxes[i].boxId = boxId
    ELSE 0

addBox(boxes, value) ==
    LET boxId == Len(boxes)
    IN  [boxes |-> Append(boxes, [boxId |-> boxId, value |-> value, spent |-> FALSE]),
         result |-> boxId]

\* A plausible slip: the filter on the spent flag is missing.
getUnspentBoxesUnfiltered(boxes) == boxes

getUnspentBoxes(boxes) == SelectSeq(boxes, LAMBDA b : ~b.spent)

\* A plausible slip: the spent flag is not looked at.
spendBoxIgnoringSpent(boxes, boxId) ==
    LET i == BoxIndex(boxes, boxId)
    IN  IF i # 0
        THEN [boxes |-> [boxes EXCEPT ![i].spent = TRUE], result |-> TRUE]
        ELSE [boxes |-> boxes, result |-> FALSE]

spendBox(boxes, boxId) ==
    LET i == BoxIndex(boxes, boxId)
    IN  IF i # 0 /\ ~boxes[i].spent
        THEN [boxes |-> [boxes EXCEPT ![i].spent = TRUE], result |-> TRUE]
        ELSE [boxes |-> boxes, result |-> FALSE]

getBalance(boxes) == SumValues(getUnspentBoxes(boxes))

SimInit ==
    /\ simBoxes = <<>>
    /\ simHeight = SimInitialHeight
    /\ simCall = NoCall
    /\ simAdded = <<>>
    /\ simSpent = [id \in SimBoxIds |-> 0]

SimCallRecord(op, arg, result) ==
    [outcome |-> "returned", op |-> op, arg |-> arg, result |-> result,
     boxesBefore |-> simBoxes, heightBefore |-> simHeight]

AddBox ==
    /\ Len(simBoxes) < MaxSimBoxes
    /\ \E value \in SimValues :
          LET r == addBox(simBoxes, value)
          IN  /\ simBoxes' = r.boxes
              /\ simCall' = SimCallRecord("addBox", value, r.result)
              /\ simAdded' = Append(simAdded, value)
    /\ UNCHANGED <<simHeight, simSpent>>
    /\ UNCHANGED nonSimVars

SpendBox ==
    /\ \E boxId \in SimBoxIds :
          LET r == spendBox(simBoxes, boxId)
          IN  /\ simBoxes' = r.boxes
              /\ simCall' = SimCallRecord("spendBox", boxId, r.result)
              /\ simSpent' = IF r.result
                             THEN [simSpent EXCEPT ![boxId] = @ + 1]
                             ELSE simSpent
    /\ UNCHANGED <<simHeight, simAdded>>
    /\ UNCHANGED nonSimVars

IncrementHeight ==
    /\ simHeight < SimInitialHeight + MaxSimBlocks
    /\ simHeight' = simHeight + 1
    /\ simCall' = SimCallRecord("incrementHeight", 0, 0)
    /\ UNCHANGED <<simBoxes, simAdded, simSpent>>
    /\ UNCHANGED nonSimVars

SimNext == AddBox \/ SpendBox \/ IncrementHeight

InitSim == SelIdle /\ ChgIdle /\ BalIdle /\ SwapIdle /\ SlipIdle /\ SimInit /\ ChainIdle /\ FundsIdle /\ PoolIdle /\ MsigIdle /\ TrkIdle /\ WaitIdle

SpecSim == InitSim /\ [][SimNext]_vars

\* the last call was spendBox on a box that was already spent
RepeatedSpend ==
    /\ simCall.outcome = "returned"
    /\ simCall.op = "spendBox"
    /\ BoxIndex(simCall.boxesBefore, simCall.arg) # 0
    /\ simCall.boxesBefore[BoxIndex(simCall.boxesBefore, simCall.arg)].spent

\* C17: spendBox returns true at most once per box id; a later spendBox on
\* that id returns false and leaves the simulator as it was, and a box that
\* was spent stays spent.
C17_NoDoubleSpend ==
    /\ \A id \in SimBoxIds : simSpent[id] <= 1
    /\ \A id \in SimBoxIds :
          simSpent[id] >= 1 =>
              /\ BoxIndex(simBoxes, id) # 0
              /\ simBoxes[BoxIndex(simBoxes, id)].spent
    /\ RepeatedSpend =>
          /\ simCall.result = FALSE
          /\ simBoxes = simCall.boxesBefore
          /\ simHeight = simCall.heightBefore

C17_Witness ==
    /\ RepeatedSpend
    /\ simSpent[simCall.arg] = 1
    /\ \E i \in DOMAIN simBoxes : ~simBoxes[i].spent

\* the boxes added and not successfully spent, from the call history
RECURSIVE LedgerFrom(_)
LedgerFrom(n) ==
    IF n = 0 THEN <<>>
    ELSE LET rest == LedgerFrom(n - 1)
         IN  IF simSpent[n - 1] = 0
             THEN Append(rest, [boxId |-> n - 1, value |-> simAdded[n]])
             ELSE rest

Ledger == LedgerFrom(Len(simAdded))

\* C18: getBalance is the sum of the values of the boxes added and not yet
\* successfully spent, getUnspentBoxes returns exactly those boxes, and a
\* successful spendBox lowers the balance by the value of the spent box.
C18_BalanceTracksUnspent ==
    /\ getBalance(simBoxes) = SumValues(Ledger)
    /\ [i \in DOMAIN getUnspentBoxes(simBoxes) |->
            [boxId |-> getUnspentBoxes(simBoxes)[i].boxId,
             value |-> getUnspentBoxes(simBoxes)[i].value]] = Ledger
    /\ (simCall.outcome = "returned" /\ simCall.op = "spendBox"
            /\ simCall.result = TRUE) =>
          getBalance(simBoxes) =
              getBalance(simCall.boxesBefore)
                - simCall.boxesBefore[BoxIndex(simCall.boxesBefore, simCall.arg)].value

C18_Witness ==
    /\ simCall.outcome = "returned"
    /\ simCall.op = "spendBox"
    /\ simCall.result = TRUE
    /\ simCall.boxesBefore[BoxIndex(simCall.boxesBefore, simCall.arg)].value > 0
    /\ getBalance(simBoxes) > 0
    /\ Len(getUnspentBoxes(simBoxes)) < Len(simBoxes)


(***************************************************************************)
(* TutorialMockChain                                                       *)
(***************************************************************************)
MaxChainBlocks == 4   \* blocks a chain gains after construction
MaxBack == 2          \* how far below the constructed height jumpTo aims

BlockTimeMs == 120000

\* constructor(height = 1, timestamp = Date.now()): the default height and
\* the height of the test chain; two clock readings
InitialHeights == {1, 844540}
InitialTimestamps == {0, 1000000000}

newBlock(c) == [height |-> c.height + 1, timestamp |-> c.timestamp + BlockTimeMs]

RECURSIVE newBlocksFrom(_, _, _)
newBlocksFrom(c, i, count) ==
    IF i < count THEN newBlocksFrom(newBlock(c), i + 1, count) ELSE c

\* A plausible slip: the height is advanced in one step and the clock once.
newBlocksOneTick(c, count) ==
    IF count > 0
    THEN [height |-> c.height + count, timestamp |-> c.timestamp + BlockTimeMs]
    ELSE c

\* A plausible slip: the count is added as it comes, negative or not.
newBlocksAnyDirection(c, count) ==
    [height |-> c.height + count, timestamp |-> c.timestamp + BlockTimeMs * count]

newBlocks(c, count) == newBlocksFrom(c, 0, count)

\* A plausible slip: the height is set whatever the direction.
jumpToUnguarded(c, height) ==
    [height |-> height, timestamp |-> c.timestamp + BlockTimeMs * (height - c.height)]

jumpTo(c, height) ==
    LET diff == height - c.height
    IN  IF diff > 0 THEN newBlocks(c, diff) ELSE c

ChainInit ==
    /\ chain \in [height : InitialHeights, timestamp : InitialTimestamps]
    /\ chain0 = chain
    /\ chainCall = NoCall

ChainCallRecord(op, arg) ==
    [outcome |-> "returned", op |-> op, arg |-> arg, before |-> chain]

HeightCap == chain0.height + MaxChainBlocks

NewBlock ==
    /\ chain.height < HeightCap
    /\ chain' = newBlock(chain)
    /\ chainCall' = ChainCallRecord("newBlock", 0)
    /\ UNCHANGED chain0
    /\ UNCHANGED nonChainVars

NewBlocks ==
    /\ \E count \in -1..MaxChainBlocks :
          /\ chain.height + count <= HeightCap
          /\ chain' = newBlocks(chain, count)
          /\ chainCall' = ChainCallRecord("newBlocks", count)
    /\ UNCHANGED chain0
    /\ UNCHANGED nonChainVars

JumpTo ==
    /\ \E d \in (0 - MaxBack)..MaxChainBlocks :
          /\ chain' = jumpTo(chain, chain0.height + d)
          /\ chainCall' = ChainCallRecord("jumpTo", chain0.height + d)
    /\ UNCHANGED chain0
    /\ UNCHANGED nonChainVars

ChainNext == NewBlock \/ NewBlocks \/ JumpTo

InitChain ==
    SelIdle /\ ChgIdle /\ BalIdle /\ SwapIdle /\ SlipIdle /\ SimIdle /\ ChainInit /\ FundsIdle /\ PoolIdle /\ MsigIdle /\ TrkIdle /\ WaitIdle

SpecChain == InitChain /\ [][ChainNext]_vars

JumpToReturned == chainCall.outcome = "returned" /\ chainCall.op = "jumpTo"

\* C19 as stated: after jumpTo(h) the height is h, whatever h and the height
\* before the call.
C19_JumpToReachesTarget == JumpToReturned => chain.height = chainCall.arg

\* C19: after jumpTo(h) the height is h when h is at least the height before
\* the call; a lower h leaves height and timestamp as they were.
C19_JumpToNeverGoesBack ==
    JumpToReturned =>
        /\ chainCall.arg >= chainCall.before.height => chain.height = chainCall.arg
        /\ chainCall.arg < chainCall.before.height => chain = chainCall.before

C19_Witness ==
    /\ JumpToReturned
    /\ chainCall.arg < chainCall.before.height
    /\ chain.height > chain0.height

\* C20: after any sequence of newBlock, newBlocks and jumpTo calls,
\* timestamp - initialTimestamp = 120000 * (height - initialHeight).
C20_TimestampFollowsHeight ==
    chain.timestamp - chain0.timestamp = 120000 * (chain.height - chain0.height)

C20_Witness ==
    /\ chainCall.outcome = "returned"
    /\ chainCall.op = "newBlocks"
    /\ chainCall.arg >= 2
    /\ chainCall.before.height > chain0.height
    /\ chain.height = chainCall.before.height + chainCall.arg


(***************************************************************************)
(* Funds check before a transfer is built                                  *)
(***************************************************************************)
\* the transfers that check their funds: the basic transfer, the
\* multi-output transfer, and the snippet of the troubleshooting guide
TransferFlows == {"executeBasicTransfer", "executeMultiOutputTransfer", "troubleshooting"}

\* input totals: an amount of the grid, alone or on top of the fee
InputValues == {g + f : g \in AmountGrid, f \in Fees}

\* the amounts sent: one recipient, or two in the multi-output transfer
RecipientLists(flow) ==
    {<<[amount |-> a]>> : a \in AmountGrid}
      \cup (IF flow = "executeMultiOutputTransfer"
            THEN {<<[amount |-> a], [amount |-> b]>> : a \in AmountGrid, b \in AmountGrid}
            ELSE {})

\* boxes.reduce((sum, box) => sum + box.value, 0n)
calculateTotalInput(boxes) == SumValues(boxes)

\* recipients.reduce((sum, r) => sum + r.amount, 0n)
RECURSIVE calculateTotalOutput(_)
calculateTotalOutput(recipients) ==
    IF recipients = <<>> THEN 0
    ELSE recipients[1].amount + calculateTotalOutput(Tail(recipients))

\* what each transfer asks for before it builds
RequiredAmount(flow, totalToSend) ==
    IF flow = "troubleshooting"
    THEN totalToSend + RECOMMENDED_MIN_FEE_VALUE + SAFE_MIN_BOX_VALUE
    ELSE totalToSend + RECOMMENDED_MIN_FEE_VALUE

\* if (available < required) throw new Error("Insufficient funds! ...")
validateFunds(available, required) ==
    IF available < required THEN "InsufficientFunds" ELSE "building"

\* the arguments of a run that has not started
FundsInit ==
    \E flow \in TransferFlows :
        fundsCall \in [outcome : {"pending"}, flow : {flow},
                       inputs : {<<[value |-> v]>> : v \in InputValues},
                       recipients : RecipientLists(flow)]

ExecuteTransfer ==
    /\ fundsCall.outcome = "pending"
    /\ LET totalInput == calculateTotalInput(fundsCall.inputs)
           totalToSend == calculateTotalOutput(fundsCall.recipients)
           required == RequiredAmount(fundsCall.flow, totalToSend)
       IN  fundsCall' = [outcome |-> validateFunds(totalInput, required),
                         flow |-> fundsCall.flow,
                         totalInput |-> totalInput,
                         totalToSend |-> totalToSend,
                         required |-> required]
    /\ UNCHANGED nonFundsVars

FundsNext == ExecuteTransfer

InitFunds ==
    SelIdle /\ ChgIdle /\ BalIdle /\ SwapIdle /\ SlipIdle /\ SimIdle /\ ChainIdle
        /\ FundsInit /\ PoolIdle /\ MsigIdle /\ TrkIdle /\ WaitIdle

SpecFunds == InitFunds /\ [][FundsNext]_vars

\* C21: a transfer goes on to build only when the total input value is at
\* least the amount sent plus the fee plus SAFE_MIN_BOX_VALUE; otherwise it
\* stops with an insufficient-funds error.
C21_ProceedsOnlyWithChangeReserve ==
    Called(fundsCall) =>
        (fundsCall.outcome = "building" <=>
            fundsCall.totalInput >=
                fundsCall.totalToSend + RECOMMENDED_MIN_FEE_VALUE + SAFE_MIN_BOX_VALUE)


(***************************************************************************)
(* Pool reserves after a swap: buildSwapTransaction                        *)
(* Amounts are bigints of any size, kept as limb sequences.                *)
(***************************************************************************)
MaxPoolInput == 4     \* small input amounts run from 1 to MaxPoolInput
MaxWideOffset == 3    \* large amounts run from 2^53 to 2^53 + MaxWideOffset

\* 2^k + d
Pow2Plus(k, d) == BigAdd(BigShiftLeft(<<1>>, k), BigFromInt(d))

\* input amounts: small ones, and the first ones above the range in which
\* Number() is exact
PoolInputs ==
    {BigFromInt(n) : n \in 1..MaxPoolInput}
      \cup {Pow2Plus(MantissaBits, d) : d \in 0..MaxWideOffset}

\* reserves: small ones, and two of a few million ERG in nanoERG
PoolReserves ==
    {BigFromInt(n) : n \in 1..MaxReserve}
      \cup {Pow2Plus(MantissaBits - 1, 0), Pow2Plus(MantissaBits, 0)}

PoolFeeRatesBps == {0, 30}

\* the largest digit d + k, 0 <= k < 2 * bit, with b * (d + k) <= t
RECURSIVE BigDigitFrom(_, _, _, _)
BigDigitFrom(t, b, d, bit) ==
    IF bit = 0 THEN d
    ELSE IF BigCmp(BigMulSmall(b, d + bit), t) <= 0
         THEN BigDigitFrom(t, b, d + bit, bit \div 2)
         ELSE BigDigitFrom(t, b, d, bit \div 2)

\* long division by b > 0, from the top limb down: [q, r]
RECURSIVE BigDivFrom(_, _, _, _, _)
BigDivFrom(a, b, i, q, r) ==
    IF i = 0 THEN [q |-> BigNorm(q), r |-> r]
    ELSE LET t == BigNorm(<<a[i]>> \o r)
             d == BigDigitFrom(t, b, 0, LimbBase \div 2)
         IN  BigDivFrom(a, b, i - 1, <<d>> \o q, BigSub(t, BigMulSmall(b, d)))

BigDiv(a, b) == BigDivFrom(a, b, Len(a), <<>>, <<>>)

\* BigInt(Math.floor(x)) for x >= 0
BigIntOfFloor(x) ==
    IF x.e >= 0 THEN BigShiftLeft(x.m, x.e) ELSE BigShiftRight(x.m, 0 - x.e)

\* calculateSwapOutput on positive amounts and reserves of any size
calculateSwapOutputBig(inputAmount, inputReserve, outputReserve, feeBps) ==
    LET feeMultiplier == FeeMultiplier(PercentLiteral(feeBps))
        inputWithFee ==
            BigIntOfFloor(DoubleMul(RoundToDouble(inputAmount, 0, FALSE), feeMultiplier))
        numerator == BigMul(outputReserve, inputWithFee)
        denominator == BigAdd(inputReserve, inputWithFee)
    IN  BigDiv(numerator, denominator).q

\* the arguments of a swap that has not been built yet
PoolInit ==
    poolCall \in [outcome : {"pending"}, inputAmount : PoolInputs,
                  reserveX : PoolReserves, reserveY : PoolReserves,
                  feeBps : PoolFeeRatesBps]

\* outputAmount comes from calculateSwap; the new reserves are
\* POOL.reserveX + SWAP_PARAMS.inputAmount and POOL.reserveY - outputAmount
BuildSwapTransaction ==
    /\ poolCall.outcome = "pending"
    /\ LET outputAmount ==
               calculateSwapOutputBig(poolCall.inputAmount, poolCall.reserveX,
                                      poolCall.reserveY, poolCall.feeBps)
       IN  poolCall' = [outcome |-> "returned",
                        inputAmount |-> poolCall.inputAmount,
                        reserveX |-> poolCall.reserveX,
                        reserveY |-> poolCall.reserveY,
                        feeBps |-> poolCall.feeBps,
                        outputAmount |-> outputAmount,
                        newPoolErgReserve |->
                            BigAdd(poolCall.reserveX, poolCall.inputAmount),
                        newPoolSigUsdReserve |->
                            BigSub(poolCall.reserveY, outputAmount)]
    /\ UNCHANGED nonPoolVars

PoolNext == BuildSwapTransaction

InitPool ==
    SelIdle /\ ChgIdle /\ BalIdle /\ SwapIdle /\ SlipIdle /\ SimIdle /\ ChainIdle
        /\ FundsIdle /\ PoolInit /\ MsigIdle /\ TrkIdle /\ WaitIdle

SpecPool == InitPool /\ [][PoolNext]_vars

\* C22: after a swap the product of the updated reserves,
\* (reserveIn + inputAmount) * (reserveOut - outputAmount), is never below
\* reserveIn * reserveOut, for every positive input amount and fee rate.
C22_ProductNeverShrinks ==
    Called(poolCall) =>
        BigCmp(BigMul(poolCall.newPoolErgReserve, poolCall.newPoolSigUsdReserve),
               BigMul(poolCall.reserveX, poolCall.reserveY)) >= 0


(***************************************************************************)
(* Multi-sig wallet: createMultiSigWallet, proposeWithdrawal,              *)
(* executeWithdrawal, run in this order by main                            *)
(***************************************************************************)
MaxSigners == 3    \* signers of a wallet

\* the approvals collected from n signers: one flag per signer
ApproverLists(n) == [1..n -> [approved : BOOLEAN]]

\* approvers.filter(a => a.approved).length
ApprovalCount(approvers) == Len(SelectSeq(approvers, LAMBDA a : a.approved))

\* MULTI_SIG_CONFIG.threshold of N signers, and the approvals the proposal
\* step collects; main has not started
MsigInit ==
    \E n \in 1..MaxSigners :
        msig \in [outcome : {"configured"}, pc : {"createMultiSigWallet"},
                  threshold : 1..n, approvers : ApproverLists(n),
                  approvalCount : {0}, thresholdMet : {FALSE},
                  fundTx : {FALSE}, withdrawTx : {FALSE}]

\* builds the funding transaction
CreateMultiSigWallet ==
    /\ msig.outcome = "configured"
    /\ msig.pc = "createMultiSigWallet"
    /\ msig' = [msig EXCEPT !.pc = "proposeWithdrawal", !.fundTx = TRUE]
    /\ UNCHANGED nonMsigVars

\* counts the approvals and prints whether the threshold is met
ProposeWithdrawal ==
    /\ msig.outcome = "configured"
    /\ msig.pc = "proposeWithdrawal"
    /\ LET approvalCount == ApprovalCount(msig.approvers)
       IN  msig' = [msig EXCEPT !.pc = "executeWithdrawal",
                                !.approvalCount = approvalCount,
                                !.thresholdMet = (approvalCount >= msig.threshold)]
    /\ UNCHANGED nonMsigVars

\* builds the withdrawal transaction
ExecuteWithdrawal ==
    /\ msig.outcome = "configured"
    /\ msig.pc = "executeWithdrawal"
    /\ msig' = [msig EXCEPT !.pc = "done", !.withdrawTx = TRUE]
    /\ UNCHANGED nonMsigVars

MsigNext == CreateMultiSigWallet \/ ProposeWithdrawal \/ ExecuteWithdrawal

InitMsig ==
    SelIdle /\ ChgIdle /\ BalIdle /\ SwapIdle /\ SlipIdle /\ SimIdle /\ ChainIdle
        /\ FundsIdle /\ PoolIdle /\ MsigInit /\ TrkIdle /\ WaitIdle

SpecMsig == InitMsig /\ [][MsigNext]_vars

MaxTrackerCalls == 3   \* calls on a tracker that runs alone
MaxSharedCalls == 2    \* calls on two trackers that share the progress file

\* xpReward of each entry of ACHIEVEMENTS
ACHIEVEMENTS ==
    [id \in {"first-blood", "getting-started", "token-master", "box-wizard",
             "chain-explorer", "speed-runner", "completionist", "fleet-master"} |->
        CASE id = "first-blood" -> 10
          [] id = "getting-started" -> 25
          [] id = "token-master" -> 50
          [] id = "box-wizard" -> 75
          [] id = "chain-explorer" -> 100
          [] id = "speed-runner" -> 150
          [] id = "completionist" -> 200
          [] id = "fleet-master" -> 500]

QuestIds == {"basic-transfer", "multi-output"}
TestIds == {"mock-chain", "integration"}
XpAmounts == {0, 10, 980}

\* array.includes(x)
Includes(array, x) == \E i \in DOMAIN array : array[i] = x

initProgress(now) ==
    [totalXP |-> 0, completedQuests |-> <<>>, completedTests |-> <<>>,
     achievements |-> <<>>, lastActive |-> now, startedAt |-> now]

\* A plausible slip: the bonus is added but the achievement is not recorded.
unlockAchievementNotRecorded(p, achievementId, now) ==
    IF achievementId \notin DOMAIN ACHIEVEMENTS THEN p
    ELSE [p EXCEPT !.totalXP = @ + ACHIEVEMENTS[achievementId]]

unlockAchievement(p, achievementId, now) ==
    IF achievementId \notin DOMAIN ACHIEVEMENTS THEN p
    ELSE [p EXCEPT !.achievements =
                       Append(@, [id |-> achievementId,
                                  xpReward |-> ACHIEVEMENTS[achievementId],
                                  unlockedAt |-> now]),
                   !.totalXP = @ + ACHIEVEMENTS[achievementId]]

\* this.progress.achievements.map((a) => a.id)
UnlockedIds(p) == {p.achievements[i].id : i \in DOMAIN p.achievements}

\* A plausible slip: Fleet Master is looked at before the other two.
checkAchievementsFleetMasterFirst(p, now) ==
    LET unlockedIds == UnlockedIds(p)
        p1 == IF p.totalXP >= 1000 /\ "fleet-master" \notin unlockedIds
              THEN unlockAchievement(p, "fleet-master", now) ELSE p
        p2 == IF Len(p1.completedTests) >= 1 /\ "first-blood" \notin unlockedIds
              THEN unlockAchievement(p1, "first-blood", now) ELSE p1
    IN  IF Includes(p2.completedQuests, "basic-transfer")
             /\ "getting-started" \notin unlockedIds
        THEN unlockAchievement(p2, "getting-started", now) ELSE p2

checkAchievements(p, now) ==
    LET unlockedIds == UnlockedIds(p)
        p1 == IF Len(p.completedTests) >= 1 /\ "first-blood" \notin unlockedIds
              THEN unlockAchievement(p, "first-blood", now) ELSE p
        p2 == IF Includes(p1.completedQuests, "basic-transfer")
                   /\ "getting-started" \notin unlockedIds
              THEN unlockAchievement(p1, "getting-started", now) ELSE p1
    IN  IF p2.totalXP >= 1000 /\ "fleet-master" \notin unlockedIds
        THEN unlockAchievement(p2, "fleet-master", now) ELSE p2

\* the progress after the call, whether save() ran, and what addXP was
\* handed: its source and amount
addXP(p, amount, source, now) ==
    [progress |-> checkAchievements([p EXCEPT !.totalXP = @ + amount,
                                              !.lastActive = now], now),
     saved |-> TRUE,
     awards |-> <<[source |-> source, amount |-> amount]>>]

NotAwarded(p) == [progress |-> p, saved |-> FALSE, awards |-> <<>>]

\* A plausible slip: the quest is not looked up before it is pushed.
completeQuestUnchecked(p, questId, xp, now) ==
    addXP([p EXCEPT !.completedQuests = Append(@, questId)], xp,
          <<"Quest", questId>>, now)

completeQuest(p, questId, xp, now) ==
    IF ~Includes(p.completedQuests, questId)
    THEN addXP([p EXCEPT !.completedQuests = Append(@, questId)], xp,
               <<"Quest", questId>>, now)
    ELSE NotAwarded(p)

completeTest(p, testId, xp, now) ==
    IF ~Includes(p.completedTests, testId)
    THEN addXP([p EXCEPT !.completedTests = Append(@, testId)], xp,
               <<"Test", testId>>, now)
    ELSE NotAwarded(p)

\* a tracker that found no progress file
TrkInit ==
    /\ trk = <<initProgress(0)>>
    /\ progFile = [exists |-> FALSE]
    /\ trkClock = 0
    /\ trkCall = NoCall
    /\ trkAwards = <<>>

CallBudget == IF Len(trk) = 1 THEN MaxTrackerCalls ELSE MaxSharedCalls

\* what every call on tracker t does to the state, given what the method
\* returned
TrkCalled(t, op, arg, amount, r) ==
    /\ trkClock < CallBudget
    /\ trk' = [trk EXCEPT ![t] = r.progress]
    /\ progFile' = IF r.saved THEN [exists |-> TRUE, data |-> r.progress]
                   ELSE progFile
    /\ trkClock' = trkClock + 1
    /\ trkCall' = [outcome |-> "returned", tracker |-> t, op |-> op, arg |-> arg,
                   amount |-> amount, before |-> trk[t], fileBefore |-> progFile]
    /\ trkAwards' = trkAwards \o [i \in DOMAIN r.awards |->
                                     [tracker |-> t, source |-> r.awards[i].source,
                                      amount |-> r.awards[i].amount]]
    /\ UNCHANGED nonTrkVars

AddXP ==
    \E t \in DOMAIN trk, amount \in XpAmounts :
        TrkCalled(t, "addXP", "manual", amount,
                  addXP(trk[t], amount, <<"manual">>, trkClock + 1))

CompleteQuest ==
    \E t \in DOMAIN trk, questId \in QuestIds, xp \in XpAmounts :
        TrkCalled(t, "completeQuest", questId, xp,
                  completeQuest(trk[t], questId, xp, trkClock + 1))

CompleteTest ==
    \E t \in DOMAIN trk, testId \in TestIds, xp \in XpAmounts :
        TrkCalled(t, "completeTest", testId, xp,
                  completeTest(trk[t], testId, xp, trkClock + 1))

TrkNext == AddXP \/ CompleteQuest \/ CompleteTest

InitTracker ==
    SelIdle /\ ChgIdle /\ BalIdle /\ SwapIdle /\ SlipIdle /\ SimIdle /\ ChainIdle
        /\ FundsIdle /\ PoolIdle /\ MsigIdle /\ TrkInit /\ WaitIdle

SpecTracker == InitTracker /\ [][TrkNext]_vars


\* the tracker that runs alone
Solo == trk[1]

\* C24: after every addXP, completeQuest or completeTest on a tracker started
\* from fresh progress, totalXP >= 1000 implies that 'fleet-master' is among
\* the unlocked achievements, also when only bonus XP crossed the threshold.
C24_FleetMasterAtThousand ==
    Solo.totalXP >= 1000 => "fleet-master" \in UnlockedIds(Solo)

\* the threshold was crossed by bonus XP alone
C24_Witness ==
    /\ Called(trkCall)
    /\ trkCall.before.totalXP + trkCall.amount < 1000
    /\ Solo.totalXP >= 1000
    /\ "fleet-master" \in UnlockedIds(Solo)
    /\ "fleet-master" \notin UnlockedIds(trkCall.before)

\* how often x occurs in array
Occurrences(array, x) == Cardinality({i \in DOMAIN array : array[i] = x})

\* how often addXP was handed this source
AwardsFrom(source) == Cardinality({i \in DOMAIN trkAwards : trkAwards[i].source = source})

\* the last call completed a quest or test that was completed before
RepeatedCompletion ==
    /\ Called(trkCall)
    /\ \/ /\ trkCall.op = "completeQuest"
          /\ Includes(trkCall.before.completedQuests, trkCall.arg)
       \/ /\ trkCall.op = "completeTest"
          /\ Includes(trkCall.before.completedTests, trkCall.arg)

\* C25: XP for a quest id or test id is awarded at most once, the id is at
\* most once in completedQuests / completedTests, and completing the same id
\* again leaves the progress as it was.
C25_CompletionIdempotent ==
    /\ \A q \in QuestIds :
          /\ AwardsFrom(<<"Quest", q>>) <= 1
          /\ Occurrences(Solo.completedQuests, q) <= 1
    /\ \A t \in TestIds :
          /\ AwardsFrom(<<"Test", t>>) <= 1
          /\ Occurrences(Solo.completedTests, t) <= 1
    /\ RepeatedCompletion =>
          /\ Solo = trkCall.before
          /\ progFile = trkCall.fileBefore

C25_Witness ==
    /\ RepeatedCompletion
    /\ trkCall.amount > 0
    /\ AwardsFrom(<<"Quest", "basic-transfer">>) = 1
    /\ trkCall.op = "completeQuest"
    /\ trkCall.arg = "basic-transfer"

RECURSIVE SumAmounts(_)
SumAmounts(awards) ==
    IF awards = <<>> THEN 0 ELSE awards[1].amount + SumAmounts(Tail(awards))

RECURSIVE SumRewards(_)
SumRewards(achievements) ==
    IF achievements = <<>> THEN 0
    ELSE ACHIEVEMENTS[achievements[1].id] + SumRewards(Tail(achievements))

\* C26: totalXP is the sum of the amounts awarded through addXP plus the
\* xpReward of every unlocked achievement, each achievement unlocked and
\* counted once.
C26_TotalIsAwardsPlusBonuses ==
    /\ Solo.totalXP = SumAmounts(trkAwards) + SumRewards(Solo.achievements)
    /\ \A i, j \in DOMAIN Solo.achievements :
          Solo.achievements[i].id = Solo.achievements[j].id => i = j

C26_Witness ==
    /\ Len(Solo.achievements) = 3
    /\ Len(trkAwards) = 3
    /\ SumAmounts(trkAwards) > 0
    /\ Solo.totalXP = SumAmounts(trkAwards) + 535


(***************************************************************************)
(* Two ProgressTracker instances on one progress file                      *)
(***************************************************************************)
\* progress found in the file: fresh, or with the first quest completed
SavedProgress ==
    {initProgress(0),
     completeQuest(initProgress(0), "basic-transfer", 10, 0).progress}

\* loadProgress() parses the file anew for each constructor: both trackers
\* start from the same data, each with its own copy
TrkSharedInit ==
    /\ progFile \in [exists : {TRUE}, data : SavedProgress]
    /\ trk = <<progFile.data, progFile.data>>
    /\ trkClock = 0
    /\ trkCall = NoCall
    /\ trkAwards = <<>>

InitTrackers ==
    SelIdle /\ ChgIdle /\ BalIdle /\ SwapIdle /\ SlipIdle /\ SimIdle /\ ChainIdle
        /\ FundsIdle /\ PoolIdle /\ MsigIdle /\ TrkSharedInit /\ WaitIdle

SpecTrackers == InitTrackers /\ [][TrkNext]_vars

\* both trackers have awarded XP, and so saved
BothSaved == \A t \in DOMAIN trk : \E i \in DOMAIN trkAwards : trkAwards[i].tracker = t

\* C27: once both trackers have awarded XP and saved, the progress file
\* holds both awards: its totalXP covers every amount awarded by either
\* tracker and its lists hold every quest and test either one completed.
C27_NoAwardLost ==
    BothSaved =>
        /\ progFile.data.totalXP >= SumAmounts(trkAwards)
        /\ \A i \in DOMAIN trkAwards :
              /\ trkAwards[i].source[1] = "Quest" =>
                    Includes(progFile.data.completedQuests, trkAwards[i].source[2])
              /\ trkAwards[i].source[1] = "Test" =>
                    Includes(progFile.data.completedTests, trkAwards[i].source[2])


(***************************************************************************)
(* Heights of both chains, and HeightCondition                             *)
(***************************************************************************)
\* HeightCondition(unlockHeight).evaluate({ height })
HeightCondition(unlockHeight, height) == height >= unlockHeight

\* unlock heights at and above the heights the chains start from
UnlockHeights ==
    {h + d : h \in InitialHeights \cup {SimInitialHeight}, d \in 0..MaxChainBlocks}

HeightsNext == IncrementHeight \/ NewBlock \/ NewBlocks \/ JumpTo

InitHeights ==
    SelIdle /\ ChgIdle /\ BalIdle /\ SwapIdle /\ SlipIdle /\ SimInit /\ ChainInit
        /\ FundsIdle /\ PoolIdle /\ MsigIdle /\ TrkIdle /\ WaitIdle

SpecHeights == InitHeights /\ [][HeightsNext]_vars

\* C28: no operation lowers the height of either chain, so a
\* HeightCondition that is true of a chain's height is true of it after every
\* later step.
C28_HeightNeverDecreases ==
    [][/\ simHeight' >= simHeight
       /\ chain'.height >= chain.height
       /\ \A u \in UnlockHeights :
             /\ HeightCondition(u, simHeight) => HeightCondition(u, simHeight')
             /\ HeightCondition(u, chain.height) => HeightCondition(u, chain'.height)]_vars

\* a condition is unlocked on both chains and the last call tried to go back
C28_Witness ==
    /\ simHeight > SimInitialHeight
    /\ HeightCondition(chain0.height + 1, chain.height)
    /\ Called(chainCall)
    /\ \/ chainCall.op = "jumpTo" /\ chainCall.arg < chainCall.before.height
       \/ chainCall.op = "newBlocks" /\ chainCall.arg < 0


(***************************************************************************)
(* ErgoExplorerClient: isTransactionConfirmed / waitForConfirmation        *)
(***************************************************************************)
MaxTimeoutMs == 3
MaxIntervalMs == 2
MaxPollMs == 1
MaxLagMs == 1
MaxConfirmations == 2
DefaultTimeoutMs == 120000
DefaultPollIntervalMs == 5000

\* <<timeoutMs, pollIntervalMs>>: small values and the defaults
WaitArgs ==
    {<<t, i>> : t \in 0..MaxTimeoutMs, i \in 0..MaxIntervalMs}
        \cup {<<DefaultTimeoutMs, DefaultPollIntervalMs>>}

StartTimes == {0, 1000}

\* What awaiting getTransaction(txId) gives: a rejection (fetch or
\* response.json() failed), the JSON value null, an object without
\* numConfirmations, or a transaction.
Responses ==
    {[kind |-> k, numConfirmations |-> 0] : k \in {"rejected", "null", "noField"}}
        \cup {[kind |-> "tx", numConfirmations |-> n] : n \in 0..MaxConfirmations}

\* A plausible slip: no try/catch around the request.
isTransactionConfirmedNoCatch(resp) ==
    IF resp.kind \in {"rejected", "null"}
    THEN [outcome |-> "raised", value |-> FALSE]
    ELSE [outcome |-> "returned",
          value |-> resp.kind = "tx" /\ resp.numConfirmations > 0]

\* try { tx = await getTransaction; return tx.numConfirmations > 0 }
\* catch { return false }: a rejection and the TypeError of reading a field of
\* null are both caught; undefined > 0 is false.
isTransactionConfirmed(resp) ==
    IF resp.kind \in {"rejected", "null"}
    THEN [outcome |-> "returned", value |-> FALSE]
    ELSE [outcome |-> "returned",
          value |-> resp.kind = "tx" /\ resp.numConfirmations > 0]

\* the delay of setTimeout(resolve, ms): a delay below 1 runs as 1
TimerDelay(ms) == IF ms < 1 THEN 1 ELSE ms

WaitInit ==
    \E a \in WaitArgs, t0 \in StartTimes :
        /\ dateNow = t0
        /\ waitCall = [outcome |-> "pending", pc |-> "start",
                       timeoutMs |-> a[1], pollIntervalMs |-> a[2],
                       startTime |-> 0, value |-> FALSE,
                       polls |-> 0, confirmedPoll |-> FALSE, failedPolls |-> 0]

\* const startTime = Date.now()
WaitStart ==
    /\ waitCall.outcome = "pending"
    /\ waitCall' = [waitCall EXCEPT !.outcome = "running", !.pc = "test",
                                    !.startTime = dateNow]
    /\ UNCHANGED <<dateNow, nonWaitVars>>

\* while (Date.now() - startTime < timeoutMs) ... return false
WaitTest ==
    /\ waitCall.outcome = "running" /\ waitCall.pc = "test"
    /\ waitCall' = IF dateNow - waitCall.startTime < waitCall.timeoutMs
                   THEN [waitCall EXCEPT !.pc = "poll"]
                   ELSE [waitCall EXCEPT !.outcome = "returned", !.pc = "done",
                                         !.value = FALSE]
    /\ UNCHANGED <<dateNow, nonWaitVars>>

\* const confirmed = await this.isTransactionConfirmed(txId);
\* if (confirmed) return true;
WaitPoll ==
    /\ waitCall.outcome = "running" /\ waitCall.pc = "poll"
    /\ \E resp \in Responses, d \in 0..MaxPollMs :
          LET r == isTransactionConfirmed(resp)
              polled == [waitCall EXCEPT
                            !.polls = @ + 1,
                            !.failedPolls = IF resp.kind = "rejected" THEN @ + 1 ELSE @,
                            !.confirmedPoll = resp.kind = "tx" /\ resp.numConfirmations > 0]
          IN  /\ dateNow' = dateNow + d
              /\ waitCall' =
                    IF r.outcome = "raised"
                    THEN [polled EXCEPT !.outcome = "raised", !.pc = "done"]
                    ELSE IF r.value
                    THEN [polled EXCEPT !.outcome = "returned", !.pc = "done",
                                        !.value = TRUE]
                    ELSE [polled EXCEPT !.pc = "sleep"]
    /\ UNCHANGED nonWaitVars

\* await new Promise(resolve => setTimeout(resolve, pollIntervalMs))
WaitSleep ==
    /\ waitCall.outcome = "running" /\ waitCall.pc = "sleep"
    /\ \E lag \in 0..MaxLagMs :
          dateNow' = dateNow + TimerDelay(waitCall.pollIntervalMs) + lag
    /\ waitCall' = [waitCall EXCEPT !.pc = "test"]
    /\ UNCHANGED nonWaitVars

WaitNext == WaitStart \/ WaitTest \/ WaitPoll \/ WaitSleep

InitWait ==
    SelIdle /\ ChgIdle /\ BalIdle /\ SwapIdle /\ SlipIdle /\ SimIdle /\ ChainIdle
        /\ FundsIdle /\ PoolIdle /\ MsigIdle /\ TrkIdle /\ WaitInit

SpecWait == InitWait /\ [][WaitNext]_vars

\* Every awaited promise settles (the request resolves or rejects, the timer
\* fires) and the continuation then runs.
SpecWaitFair == SpecWait /\ WF_vars(WaitNext)

WaitDone == waitCall.pc = "done"

\* C29: waitForConfirmation ends without raising; it returns true exactly
\* when a poll reported the transaction confirmed, right after that poll, and
\* returns false only once timeoutMs has elapsed since the start.
C29_WaitTerminatesWithAnswer ==
    /\ <>WaitDone
    /\ [](WaitDone =>
            /\ waitCall.outcome = "returned"
            /\ waitCall.value <=> waitCall.confirmedPoll
            /\ ~waitCall.value =>
                  dateNow - waitCall.startTime >= waitCall.timeoutMs)
    /\ [](waitCall.confirmedPoll => WaitDone)

\* false is returned after two or more polls that all failed with a network error
C29_Witness ==
    /\ WaitDone
    /\ waitCall.outcome = "returned" /\ ~waitCall.value
    /\ waitCall.polls >= 2
    /\ waitCall.failedPolls = waitCall.polls

====
